---- MODULE Spec2Model ----
(***************************************************************************)
(* State-machine model of the blog front end: the cache-invalidation       *)
(* webhook (POST), the Content Client (src/lib/api.ts) and the page        *)
(* assemblers (BlogListPage, CategoryPage).  One request is served at a    *)
(* time; the variables hold the request being served, the CMS exchanges it *)
(* made, the cache tags it invalidated and what it produced.               *)
(***************************************************************************)
EXTENDS Integers, Sequences, FiniteSets, TLC

VARIABLES
    cms,      \* the CMS content: its posts, in id (creation) order
    env,      \* process.env: the configured secrets and URLs
    handler,  \* which handler served the current request ("none" at start)
    input,    \* the handler's input
    calls,    \* the CMS exchanges of this run, in order: [request, answer]
    tags,     \* the arguments of revalidateTag in this run, in order
    output    \* what the handler produced

vars == <<cms, env, handler, input, calls, tags, output>>

(***************************************************************************)
(* Bounds of the model.                                                    *)
(***************************************************************************)
MaxPosts == 21
MaxClock == 1

\* Program constants.
PageSize == 10

(***************************************************************************)
(* JavaScript values.                                                      *)
(***************************************************************************)
\* An optional string: a property that may be undefined / a header that may be null.
None == [has |-> FALSE, val |-> ""]
Some(s) == [has |-> TRUE, val |-> s]

\* String(x) of a template literal: undefined prints as "undefined".
TemplateText(opt) == IF opt.has THEN opt.val ELSE "undefined"

\* Truthiness of an optional string: undefined and "" are falsy.
Truthy(opt) == opt.has /\ opt.val # ""

\* String.prototype.startsWith
StartsWith(s, prefix) ==
    /\ Len(s) >= Len(prefix)
    /\ SubSeq(s, 1, Len(prefix)) = prefix

\* A number that may be NaN.
NaN == [nan |-> TRUE, val |-> 0]
Num(n) == [nan |-> FALSE, val |-> n]
NumGt(a, b) == ~a.nan /\ ~b.nan /\ a.val > b.val
NumLt(a, b) == ~a.nan /\ ~b.nan /\ a.val < b.val
NumText(a) == IF a.nan THEN "NaN" ELSE ToString(a.val)

(***************************************************************************)
(* The cache-invalidation endpoint.                                        *)
(***************************************************************************)
\* The string the Authorization header is compared with.
ExpectedAuthorization(e) == "Bearer " \o TemplateText(e.STRAPI_REVALIDATE_TOKEN)

AuthorizedAcceptsMissing(header, e) ==
    ~header.has \/ header.val = ExpectedAuthorization(e)

\* secret !== `Bearer ${process.env.STRAPI_REVALIDATE_TOKEN}` is false.
Authorized(header, e) ==
    header.has /\ header.val = ExpectedAuthorization(e)

\* entry && entry.slug
EntrySlug(entry) == entry.has /\ Truthy(entry.slug)

IsEntryEventNoPrefixCheck(event) == Truthy(event)

\* event && event.startsWith('entry.')
IsEntryEvent(event) == Truthy(event) /\ StartsWith(event.val, "entry.")

BlogTagsNoSlug(entry) == <<"blog_posts">>

\* The revalidateTag calls of the model === 'blog' branch.
BlogTags(entry) ==
    <<"blog_posts">> \o
    (IF EntrySlug(entry) THEN <<"blog_post:" \o entry.slug.val>> ELSE <<>>)

CategoryTagsWithBlog(entry) ==
    <<"blog_posts", "categories">> \o
    (IF EntrySlug(entry) THEN <<"category:" \o entry.slug.val>> ELSE <<>>)

\* The revalidateTag calls of the model === 'category' branch.
CategoryTags(entry) ==
    <<"categories">> \o
    (IF EntrySlug(entry) THEN <<"category:" \o entry.slug.val>> ELSE <<>>)

\* The revalidateTag calls made for a parsed, truthy body.
RevalidatedTags(body) ==
    IF IsEntryEvent(body.event)
    THEN IF body.model = Some("blog") THEN BlogTags(body.entry)
         ELSE IF body.model = Some("category") THEN CategoryTags(body.entry)
         ELSE <<>>
    ELSE <<>>

Unauthorized == [status |-> 401, body |-> [message |-> "Invalid token"]]
BadRequest == [status |-> 400, body |-> [message |-> "Bad request"]]
\* NextResponse.json({ revalidated: true, now: Date.now() })
Acknowledged(clock) ==
    [status |-> 200, body |-> [revalidated |-> TRUE, now |-> clock]]

\* What request.json() does with the body: it rejects when the text is not JSON.
JsonRejects(body) == body.kind = "unparseable"

\* if (!body): the parsed value is null, false, 0 or "".
BodyFalsy(body) == body.kind = "falsy"

POSTRunAckOnlyOnInvalidation(req, e) ==
    IF ~Authorized(req.authorization, e)
    THEN [outcome |-> "response", response |-> Unauthorized,
          tags |-> <<>>, bodyRead |-> FALSE]
    ELSE IF JsonRejects(req.body)
    THEN [outcome |-> "throw", response |-> [status |-> 0, body |-> "SyntaxError"],
          tags |-> <<>>, bodyRead |-> TRUE]
    ELSE IF BodyFalsy(req.body) \/ RevalidatedTags(req.body) = <<>>
    THEN [outcome |-> "response", response |-> BadRequest,
          tags |-> <<>>, bodyRead |-> TRUE]
    ELSE [outcome |-> "response", response |-> Acknowledged(req.clock),
          tags |-> RevalidatedTags(req.body), bodyRead |-> TRUE]

POSTRunParsesFirst(req, e) ==
    IF JsonRejects(req.body)
    THEN [outcome |-> "throw", response |-> [status |-> 0, body |-> "SyntaxError"],
          tags |-> <<>>, bodyRead |-> TRUE]
    ELSE IF ~Authorized(req.authorization, e)
    THEN [outcome |-> "response", response |-> Unauthorized,
          tags |-> <<>>, bodyRead |-> TRUE]
    ELSE IF BodyFalsy(req.body)
    THEN [outcome |-> "response", response |-> BadRequest,
          tags |-> <<>>, bodyRead |-> TRUE]
    ELSE [outcome |-> "response", response |-> Acknowledged(req.clock),
          tags |-> RevalidatedTags(req.body), bodyRead |-> TRUE]

\* One run of POST: what it returns or throws (request.json() rejecting is not
\* caught), the tags it invalidated and whether it read the body.
POSTRun(req, e) ==
    IF ~Authorized(req.authorization, e)
    THEN [outcome |-> "response", response |-> Unauthorized,
          tags |-> <<>>, bodyRead |-> FALSE]
    ELSE IF JsonRejects(req.body)
    THEN [outcome |-> "throw", response |-> [status |-> 0, body |-> "SyntaxError"],
          tags |-> <<>>, bodyRead |-> TRUE]
    ELSE IF BodyFalsy(req.body)
    THEN [outcome |-> "response", response |-> BadRequest,
          tags |-> <<>>, bodyRead |-> TRUE]
    ELSE [outcome |-> "response", response |-> Acknowledged(req.clock),
          tags |-> RevalidatedTags(req.body), bodyRead |-> TRUE]

\* The requests the webhook is driven with.
Headers ==
    {None, Some("Bearer s3cret"), Some("Bearer wrong"), Some("bearer s3cret"),
     Some("s3cret"), Some("Bearer s3cret2"), Some("Bearer "), Some("Bearer undefined")}
Events ==
    {None, Some(""), Some("entry.update"), Some("entry.delete"), Some("entry"),
     Some("media.update"), Some("xentry.update")}
Models == {None, Some("blog"), Some("category"), Some("author"), Some("Blog")}
Entries ==
    {[has |-> FALSE, slug |-> None]} \cup
    {[has |-> TRUE, slug |-> s] : s \in {None, Some(""), Some("abc"), Some("road")}}
Bodies ==
    {[kind |-> "unparseable", event |-> None, model |-> None,
      entry |-> [has |-> FALSE, slug |-> None]],
     [kind |-> "falsy", event |-> None, model |-> None,
      entry |-> [has |-> FALSE, slug |-> None]]} \cup
    {[kind |-> "object", event |-> ev, model |-> m, entry |-> en] :
        ev \in Events, m \in Models, en \in Entries}
Clocks == 0..MaxClock

POST ==
    /\ handler = "none"
    /\ \E h \in Headers, b \in Bodies, c \in Clocks :
        LET req == [authorization |-> h, body |-> b, clock |-> c]
            run == POSTRun(req, env)
        IN  /\ handler' = "POST"
            /\ input' = req
            /\ calls' = <<>>
            /\ tags' = run.tags
            /\ output' = [outcome |-> run.outcome, response |-> run.response,
                          bodyRead |-> run.bodyRead]
            /\ UNCHANGED <<cms, env>>

(***************************************************************************)
(* qs.stringify: a JavaScript object is a sequence of <<key, node>> in     *)
(* insertion order; a node is a primitive (its text) or a nested object;   *)
(* an array is the object of its indices.  The result is the sequence of   *)
(* key=value pairs, keys in bracket notation.                              *)
(***************************************************************************)
Leaf(text) == [kind |-> "leaf", text |-> text, items |-> <<>>]
Obj(items) == [kind |-> "object", text |-> "", items |-> items]
Arr(texts) == Obj([i \in 1..Len(texts) |-> <<ToString(i - 1), Leaf(texts[i])>>])

RECURSIVE QsPairs(_, _)
RECURSIVE QsItems(_, _, _)
QsItems(prefix, items, i) ==
    IF i > Len(items) THEN <<>>
    ELSE LET key == IF prefix = "" THEN items[i][1]
                    ELSE prefix \o "[" \o items[i][1] \o "]"
         IN  QsPairs(key, items[i][2]) \o QsItems(prefix, items, i + 1)
QsPairs(prefix, node) ==
    IF node.kind = "leaf" THEN <<[key |-> prefix, value |-> node.text]>>
    ELSE QsItems(prefix, node.items, 1)

QsStringify(object) == QsPairs("", object)

\* The value of a key in a query string, as the receiving side reads it.
QsHas(search, key) == \E i \in 1..Len(search) : search[i].key = key
QsGet(search, key) ==
    search[CHOOSE i \in 1..Len(search) : search[i].key = key].value

(***************************************************************************)
(* The Content Client (src/lib/api.ts).                                    *)
(***************************************************************************)
Populate ==
    <<"populate", Obj(<<
        <<"cover", Obj(<< <<"fields", Arr(<<"url", "alternativeText">>)>> >>)>>,
        <<"categories", Obj(<< <<"fields", Arr(<<"name", "slug">>)>> >>)>> >>)>>

Pagination(page, pageSize) ==
    <<"pagination", Obj(<< <<"page", Leaf(NumText(page))>>,
                           <<"pageSize", Leaf(NumText(pageSize))>> >>)>>

SortNewestFirst == <<"sort", Arr(<<"createdAt:desc">>)>>

GetBlogPostsRequestUnsorted(page, pageSize) ==
    [path |-> "/api/blogs",
     search |-> QsStringify(Obj(<<Populate, Pagination(page, pageSize)>>))]

\* getBlogPosts: the URL it fetches.
GetBlogPostsRequest(page, pageSize) ==
    [path |-> "/api/blogs",
     search |-> QsStringify(Obj(<<Populate, Pagination(page, pageSize),
                                  SortNewestFirst>>))]

GetPostBySlugRequestNoFilter(slug) ==
    [path |-> "/api/blogs", search |-> QsStringify(Obj(<<Populate>>))]

\* getPostBySlug: the URL it fetches.
GetPostBySlugRequest(slug) ==
    [path |-> "/api/blogs",
     search |-> QsStringify(Obj(<<
        <<"filters", Obj(<< <<"slug", Obj(<< <<"$eq", Leaf(slug)>> >>)>> >>)>>,
        Populate>>))]

GetPostsByCategoryRequestBySlug(categorySlug, page, pageSize) ==
    [path |-> "/api/blogs",
     search |-> QsStringify(Obj(<<
        <<"filters", Obj(<< <<"slug", Obj(<< <<"$eq", Leaf(categorySlug)>> >>)>> >>)>>,
        Populate, Pagination(page, pageSize), SortNewestFirst>>))]

\* getPostsByCategory: the URL it fetches.
GetPostsByCategoryRequest(categorySlug, page, pageSize) ==
    [path |-> "/api/blogs",
     search |-> QsStringify(Obj(<<
        <<"filters", Obj(<< <<"categories",
            Obj(<< <<"slug", Obj(<< <<"$eq", Leaf(categorySlug)>> >>)>> >>)>> >>)>>,
        Populate, Pagination(page, pageSize), SortNewestFirst>>))]

FetchDataParsesFirst(answer) ==
    IF answer.kind = "network"
    THEN [outcome |-> "throw", error |-> "fetch failed", jsonRead |-> FALSE]
    ELSE IF ~answer.ok
    THEN [outcome |-> "throw", error |-> "API error", jsonRead |-> TRUE]
    ELSE [outcome |-> "ok", json |-> answer.json, jsonRead |-> TRUE]

\* fetchData: a non-ok response throws with the status and the body text; a
\* rejected fetch throws; an ok response yields its parsed JSON.  jsonRead
\* tells whether res.json() was called.
FetchData(answer) ==
    IF answer.kind = "network"
    THEN [outcome |-> "throw", error |-> "fetch failed", jsonRead |-> FALSE]
    ELSE IF ~answer.ok
    THEN [outcome |-> "throw",
          error |-> "API error: " \o ToString(answer.status) \o " - " \o answer.text,
          jsonRead |-> FALSE]
    ELSE [outcome |-> "ok", json |-> answer.json, jsonRead |-> TRUE]

\* The cache tags fetch attaches to a request: fetchData calls
\* fetch(url.toString()) with no options, so none.
FetchTags(request) == {}

Null == [null |-> TRUE]
Value(v) == [null |-> FALSE, value |-> v]

\* data.data[0] ?? null
FirstOrNull(data) == IF Len(data) >= 1 THEN Value(data[1]) ELSE Null

(***************************************************************************)
(* parseInt(string, 10)                                                    *)
(***************************************************************************)
CharAt(s, i) == SubSeq(s, i, i)
IsDigit(ch) == \E d \in 0..9 : ToString(d) = ch
DigitOf(ch) == CHOOSE d \in 0..9 : ToString(d) = ch

RECURSIVE SkipWhiteSpace(_, _)
SkipWhiteSpace(s, i) ==
    IF i <= Len(s) /\ CharAt(s, i) = " " THEN SkipWhiteSpace(s, i + 1) ELSE i

\* The value of the longest run of digits starting at i, given the value so far.
RECURSIVE DigitRun(_, _, _)
DigitRun(s, i, acc) ==
    IF i <= Len(s) /\ IsDigit(CharAt(s, i))
    THEN DigitRun(s, i + 1, 10 * acc + DigitOf(CharAt(s, i)))
    ELSE acc

ParseInt(s) ==
    LET i == SkipWhiteSpace(s, 1)
        signed == i <= Len(s) /\ CharAt(s, i) \in {"+", "-"}
        negative == signed /\ CharAt(s, i) = "-"
        j == IF signed THEN i + 1 ELSE i
    IN  IF j <= Len(s) /\ IsDigit(CharAt(s, j))
        THEN Num((IF negative THEN -1 ELSE 1) * DigitRun(s, j, 0))
        ELSE NaN

(***************************************************************************)
(* The CMS (external): /api/blogs answers a query string by the filtering  *)
(* convention the Content Client writes its queries in.                    *)
(***************************************************************************)
\* The number a query-string value denotes, NaN when it is not an integer.
TextNum(text) ==
    LET negative == Len(text) >= 1 /\ SubSeq(text, 1, 1) = "-"
        start == IF negative THEN 2 ELSE 1
    IN  IF /\ Len(text) >= start
           /\ \A i \in start..Len(text) : IsDigit(CharAt(text, i))
        THEN Num((IF negative THEN -1 ELSE 1) * DigitRun(text, start, 0))
        ELSE NaN

Reverse(seq) == [i \in 1..Len(seq) |-> seq[Len(seq) + 1 - i]]

Min(a, b) == IF a <= b THEN a ELSE b

CmsMatches(post, search) ==
    /\ QsHas(search, "filters[slug][$eq]") =>
          post.slug = QsGet(search, "filters[slug][$eq]")
    /\ QsHas(search, "filters[categories][slug][$eq]") =>
          \E i \in 1..Len(post.categories) :
              post.categories[i].slug = QsGet(search, "filters[categories][slug][$eq]")

\* The successful answer for a valid page number: the matching posts, sorted
\* as asked, cut to the page, with the pagination metadata.
CmsPage(posts, search, page, pageSize) ==
    LET matching == SelectSeq(posts, LAMBDA p : CmsMatches(p, search))
        sorted == IF QsHas(search, "sort[0]") /\ QsGet(search, "sort[0]") = "createdAt:desc"
                  THEN Reverse(matching) ELSE matching
        total == Len(sorted)
        first == (page - 1) * pageSize + 1
        last == Min(page * pageSize, total)
    IN  [kind |-> "http", ok |-> TRUE, status |-> 200, text |-> "",
         json |-> [data |-> SubSeq(sorted, first, last),
                   meta |-> [pagination |->
                       [page |-> page, pageSize |-> pageSize,
                        pageCount |-> (total + pageSize - 1) \div pageSize,
                        total |-> total]]]]

HttpError(status, text) ==
    [kind |-> "http", ok |-> FALSE, status |-> status, text |-> text, json |-> <<>>]
NetworkFailure ==
    [kind |-> "network", ok |-> FALSE, status |-> 0, text |-> "", json |-> <<>>]

\* Every answer the CMS may give to a request for /api/blogs.  A page number
\* that is no positive integer is the backend's to judge: it rejects the
\* request or serves its first page.
CmsAnswers(c, request) ==
    LET search == request.search
        page == IF QsHas(search, "pagination[page]")
                THEN TextNum(QsGet(search, "pagination[page]")) ELSE Num(1)
        size == IF QsHas(search, "pagination[pageSize]")
                THEN TextNum(QsGet(search, "pagination[pageSize]")).val
                ELSE 25  \* the CMS's default page size
    IN  (IF ~page.nan /\ page.val >= 1
         THEN {CmsPage(c.posts, search, page.val, size)}
         ELSE {CmsPage(c.posts, search, 1, size),
               HttpError(400, "Invalid page")})
        \cup {HttpError(500, "Internal Server Error"), NetworkFailure}

(***************************************************************************)
(* The page assemblers.                                                    *)
(***************************************************************************)
\* searchParams?.page ? parseInt(searchParams.page, 10) : 1
ParsePage(param) == IF Truthy(param) THEN ParseInt(param.val) ELSE Num(1)

\* A pagination link: whether it is rendered, and the page it targets.
Control(shown, target) == [shown |-> shown, target |-> target]

BlogListPageRenderNextOnLast(page, fetched) ==
    IF fetched.outcome = "throw"
    THEN [outcome |-> "throw", error |-> fetched.error]
    ELSE LET pageCount == fetched.json.meta.pagination.pageCount
         IN  [outcome |-> "rendered",
              posts |-> fetched.json.data,
              page |-> page,
              pageCount |-> pageCount,
              previous |-> Control(NumGt(page, Num(1)), page.val - 1),
              next |-> Control(~NumGt(page, Num(pageCount)), page.val + 1)]

BlogListPageRenderClamped(page, fetched) ==
    IF fetched.outcome = "throw"
    THEN [outcome |-> "throw", error |-> fetched.error]
    ELSE LET pageCount == fetched.json.meta.pagination.pageCount
             shown == IF NumGt(page, Num(pageCount)) THEN Num(pageCount) ELSE page
         IN  [outcome |-> "rendered",
              posts |-> fetched.json.data,
              page |-> shown,
              pageCount |-> pageCount,
              previous |-> Control(NumGt(shown, Num(1)), shown.val - 1),
              next |-> Control(NumLt(shown, Num(pageCount)), shown.val + 1)]

\* BlogListPage after the fetch: the post list and the pagination controls.
BlogListPageRender(page, fetched) ==
    IF fetched.outcome = "throw"
    THEN [outcome |-> "throw", error |-> fetched.error]
    ELSE LET pageCount == fetched.json.meta.pagination.pageCount
         IN  [outcome |-> "rendered",
              posts |-> fetched.json.data,
              page |-> page,
              pageCount |-> pageCount,
              previous |-> Control(NumGt(page, Num(1)), page.val - 1),
              next |-> Control(NumLt(page, Num(pageCount)), page.val + 1)]

CategoryPageRenderEmptyList(slug, page, fetched) ==
    IF fetched.outcome = "throw"
    THEN [outcome |-> "throw", error |-> fetched.error]
    ELSE LET pageCount == fetched.json.meta.pagination.pageCount
         IN  [outcome |-> "rendered",
              posts |-> fetched.json.data,
              page |-> page,
              pageCount |-> pageCount,
              previous |-> Control(NumGt(page, Num(1)), page.val - 1),
              next |-> Control(NumLt(page, Num(pageCount)), page.val + 1)]

CategoryPageRenderOnlyEmptyCategory(slug, page, fetched) ==
    IF fetched.outcome = "throw"
    THEN [outcome |-> "throw", error |-> fetched.error]
    ELSE IF fetched.json.meta.pagination.total = 0
    THEN [outcome |-> "notFound"]
    ELSE LET pageCount == fetched.json.meta.pagination.pageCount
         IN  [outcome |-> "rendered",
              posts |-> fetched.json.data,
              page |-> page,
              pageCount |-> pageCount,
              previous |-> Control(NumGt(page, Num(1)), page.val - 1),
              next |-> Control(NumLt(page, Num(pageCount)), page.val + 1)]

\* CategoryPage after the fetch: notFound() on an empty list, else the post
\* list and the pagination controls.
CategoryPageRender(slug, page, fetched) ==
    IF fetched.outcome = "throw"
    THEN [outcome |-> "throw", error |-> fetched.error]
    ELSE IF Len(fetched.json.data) = 0
    THEN [outcome |-> "notFound"]
    ELSE LET pageCount == fetched.json.meta.pagination.pageCount
         IN  [outcome |-> "rendered",
              posts |-> fetched.json.data,
              page |-> page,
              pageCount |-> pageCount,
              previous |-> Control(NumGt(page, Num(1)), page.val - 1),
              next |-> Control(NumLt(page, Num(pageCount)), page.val + 1)]

(***************************************************************************)
(* The requests the handlers are driven with, and the CMS contents.        *)
(***************************************************************************)
PageParams ==
    {None, Some(""), Some("1"), Some("2"), Some("3"), Some("4"), Some("0"),
     Some("-1"), Some("abc"), Some("2x"), Some(" 3"), Some("3.7"), Some("+2"),
     Some("x1"), Some("03")}
PostSlugs == {"abc", "ABC", "ab", "post-4", "missing", ""}
CategorySlugs == {"road", "mtb", "Road", "none"}

Category(slug) == [name |-> slug, slug |-> slug]

\* Layout 1: distinct slugs, every post in "road", every third also in "mtb".
\* Layout 2: posts 1 and 2 share the slug "abc", post 3 is "ABC"; odd posts
\* are in "road", every third in "mtb".
PostOf(i, layout) ==
    [id |-> i,
     slug |-> IF layout = 2 /\ i \in {1, 2} THEN "abc"
              ELSE IF layout = 2 /\ i = 3 THEN "ABC"
              ELSE "post-" \o ToString(i),
     createdAt |-> i,
     categories |->
        (IF layout = 1 \/ i % 2 = 1 THEN <<Category("road")>> ELSE <<>>)
        \o (IF i % 3 = 0 THEN <<Category("mtb")>> ELSE <<>>)]

CmsContents ==
    {[posts |-> [i \in 1..n |-> PostOf(i, layout)]] : n \in 0..MaxPosts, layout \in {1, 2}}

BlogListPage ==
    /\ handler = "none"
    /\ \E param \in PageParams :
        LET page == ParsePage(param)
            request == GetBlogPostsRequest(page, Num(PageSize))
        IN  \E answer \in CmsAnswers(cms, request) :
                /\ handler' = "BlogListPage"
                /\ input' = [page |-> param]
                /\ calls' = <<[request |-> request, answer |-> answer]>>
                /\ tags' = <<>>
                /\ output' = BlogListPageRender(page, FetchData(answer))
                /\ UNCHANGED <<cms, env>>

CategoryPage ==
    /\ handler = "none"
    /\ \E slug \in CategorySlugs, param \in PageParams :
        LET page == ParsePage(param)
            request == GetPostsByCategoryRequest(slug, page, Num(PageSize))
        IN  \E answer \in CmsAnswers(cms, request) :
                /\ handler' = "CategoryPage"
                /\ input' = [slug |-> slug, page |-> param]
                /\ calls' = <<[request |-> request, answer |-> answer]>>
                /\ tags' = <<>>
                /\ output' = CategoryPageRender(slug, page, FetchData(answer))
                /\ UNCHANGED <<cms, env>>

\* One call of getPostBySlug.
GetPostBySlugResult(fetched) ==
    IF fetched.outcome = "throw"
    THEN [outcome |-> "throw", error |-> fetched.error, jsonRead |-> fetched.jsonRead]
    ELSE [outcome |-> "returned", result |-> FirstOrNull(fetched.json.data)]

getPostBySlug ==
    /\ handler = "none"
    /\ \E slug \in PostSlugs :
        LET request == GetPostBySlugRequest(slug)
        IN  \E answer \in CmsAnswers(cms, request) :
                /\ handler' = "getPostBySlug"
                /\ input' = [slug |-> slug]
                /\ calls' = <<[request |-> request, answer |-> answer]>>
                /\ tags' = <<>>
                /\ output' = GetPostBySlugResult(FetchData(answer))
                /\ UNCHANGED <<cms, env>>

\* The request is over; the next one starts from nothing.
Respond ==
    /\ handler # "none"
    /\ handler' = "none"
    /\ input' = <<>>
    /\ calls' = <<>>
    /\ tags' = <<>>
    /\ output' = <<>>
    /\ UNCHANGED <<cms, env>>

Envs ==
    {[STRAPI_REVALIDATE_TOKEN |-> t] : t \in {None, Some("s3cret")}}

Init ==
    /\ cms \in CmsContents
    /\ env \in Envs
    /\ handler = "none"
    /\ input = <<>>
    /\ calls = <<>>
    /\ tags = <<>>
    /\ output = <<>>

Next ==
    \/ POST
    \/ BlogListPage
    \/ CategoryPage
    \/ getPostBySlug
    \/ Respond

Spec == Init /\ [][Next]_vars

(***************************************************************************)
(* The site with its categories: the CMS content behind /api/blogs and     *)
(* /api/categories, with the fields the sitemap, the sidebar and the       *)
(* detail page read.                                                       *)
(***************************************************************************)
MaxSitePosts == 3
MaxCategories == 26

\* A cover as the CMS may shape it: none, { url, alternativeText }, or
\* { data: { attributes: { url, alternativeText } } }.
NoCover == [kind |-> "none", url |-> "", alternativeText |-> ""]
Cover(kind, url) == [kind |-> kind, url |-> url, alternativeText |-> ""]

SitePostOf(i) ==
    [id |-> i,
     slug |-> IF i = 1 THEN "abc" ELSE IF i = 2 THEN "my_bike"
              ELSE "post-" \o ToString(i),
     title |-> "Title " \o ToString(i),
     createdAt |-> "created-" \o ToString(i),
     updatedAt |-> IF i % 2 = 1 THEN Some("updated-" \o ToString(i)) ELSE None,
     cover |-> IF i = 1 THEN Cover("flat", "/uploads/a.jpg")
               ELSE IF i = 2 THEN Cover("nested", "/uploads/b.jpg")
               ELSE NoCover,
     images |-> IF i = 1 THEN <<"/uploads/c.png", "https://cdn.example/d.png">>
                ELSE IF i = 2 THEN <<"img/e.png">>
                ELSE <<>>,
     categories |-> IF i = 3 THEN <<>> ELSE <<Category("road")>>]

\* Categories carry a priority in their description; the third's is no number.
SiteCategoryOf(i) ==
    [id |-> i,
     slug |-> IF i = 1 THEN "road" ELSE "cat-" \o ToString(i),
     name |-> "Category " \o ToString(i),
     description |-> IF i = 3 THEN "last" ELSE ToString((7 * i) % 10),
     createdAt |-> "created-c" \o ToString(i),
     updatedAt |-> IF i % 3 = 0 THEN None ELSE Some("updated-c" \o ToString(i))]

\* Every number of posts with up to SmallSite categories, and every number of
\* categories with the full set of posts.
SmallSite == 3
CmsSites ==
    {[posts |-> [i \in 1..nk[1] |-> SitePostOf(i)],
      categories |-> [i \in 1..nk[2] |-> SiteCategoryOf(i)]] :
        nk \in {x \in (0..MaxSitePosts) \X (0..MaxCategories) :
                    x[2] <= SmallSite \/ x[1] = MaxSitePosts}}

\* Every answer the CMS may give to a request for /api/categories.
CmsCategoriesAnswers(c, request) ==
    LET search == request.search
        page == IF QsHas(search, "pagination[page]")
                THEN TextNum(QsGet(search, "pagination[page]")) ELSE Num(1)
        size == IF QsHas(search, "pagination[pageSize]")
                THEN TextNum(QsGet(search, "pagination[pageSize]")).val
                ELSE 25  \* the CMS's default page size
    IN  (IF ~page.nan /\ page.val >= 1
         THEN {CmsPage(c.categories, search, page.val, size)}
         ELSE {CmsPage(c.categories, search, 1, size),
               HttpError(400, "Invalid page")})
        \cup {HttpError(403, "Forbidden"), HttpError(500, "Internal Server Error"),
              NetworkFailure}

\* fetch(url): the answers the CMS may give.
FetchAnswers(c, request) ==
    IF request.path = "/api/categories"
    THEN CmsCategoriesAnswers(c, request)
    ELSE CmsAnswers(c, request) \cup {HttpError(404, "Not Found")}

\* getCategories: the URL it fetches (url.search is never set).
GetCategoriesRequest == [path |-> "/api/categories", search |-> <<>>]

\* What a Content Client operation hands to its caller.
Thrown(fetched) ==
    [outcome |-> "throw", error |-> fetched.error, jsonRead |-> fetched.jsonRead]
Returned(value) == [outcome |-> "returned", result |-> value]

\* getBlogPosts and getPostsByCategory: return await fetchData(url)
ReturnJson(fetched) ==
    IF fetched.outcome = "throw" THEN Thrown(fetched) ELSE Returned(fetched.json)

\* getCategories: return data.data
GetCategoriesResult(fetched) ==
    IF fetched.outcome = "throw" THEN Thrown(fetched) ELSE Returned(fetched.json.data)

\* The <<page, pageSize>> the operations are called with.
PageRequests ==
    {<<Num(1), Num(10)>>, <<Num(2), Num(1)>>, <<Num(1), Num(5)>>, <<Num(2), Num(5)>>,
     <<Num(1), Num(1000)>>, <<Num(0), Num(10)>>, <<NaN, Num(10)>>}

getBlogPosts ==
    /\ handler = "none"
    /\ \E pr \in PageRequests :
        LET page == pr[1]
            pageSize == pr[2]
            request == GetBlogPostsRequest(page, pageSize)
        IN  \E answer \in FetchAnswers(cms, request) :
                /\ handler' = "getBlogPosts"
                /\ input' = [page |-> page, pageSize |-> pageSize]
                /\ calls' = <<[request |-> request, answer |-> answer]>>
                /\ tags' = <<>>
                /\ output' = ReturnJson(FetchData(answer))
                /\ UNCHANGED <<cms, env>>

getPostsByCategory ==
    /\ handler = "none"
    /\ \E slug \in CategorySlugs, pr \in PageRequests :
        LET page == pr[1]
            pageSize == pr[2]
            request == GetPostsByCategoryRequest(slug, page, pageSize)
        IN  \E answer \in FetchAnswers(cms, request) :
                /\ handler' = "getPostsByCategory"
                /\ input' = [categorySlug |-> slug, page |-> page, pageSize |-> pageSize]
                /\ calls' = <<[request |-> request, answer |-> answer]>>
                /\ tags' = <<>>
                /\ output' = ReturnJson(FetchData(answer))
                /\ UNCHANGED <<cms, env>>

getCategories ==
    /\ handler = "none"
    /\ \E answer \in FetchAnswers(cms, GetCategoriesRequest) :
        /\ handler' = "getCategories"
        /\ input' = <<>>
        /\ calls' = <<[request |-> GetCategoriesRequest, answer |-> answer]>>
        /\ tags' = <<>>
        /\ output' = GetCategoriesResult(FetchData(answer))
        /\ UNCHANGED <<cms, env>>

(***************************************************************************)
(* A handler that awaits several CMS calls one after another.              *)
(***************************************************************************)
\* The first answer that makes fetchData throw; Len + 1 when none does.
FirstFailure(answers) ==
    IF \E i \in 1..Len(answers) : ~answers[i].ok
    THEN CHOOSE i \in 1..Len(answers) :
            ~answers[i].ok /\ \A j \in 1..(i - 1) : answers[j].ok
    ELSE Len(answers) + 1

CallsMadeDespiteFailure(requests, answers) ==
    [i \in 1..Len(requests) |-> [request |-> requests[i], answer |-> answers[i]]]

\* The calls a handler makes: each await throws out of the handler when its
\* call failed, so the calls end with the first failed one.
CallsMade(requests, answers) ==
    [i \in 1..Min(Len(requests), FirstFailure(answers)) |->
        [request |-> requests[i], answer |-> answers[i]]]

Failed(answers) == FirstFailure(answers) <= Len(answers)
Failure(answers) == Thrown(FetchData(answers[FirstFailure(answers)]))

(***************************************************************************)
(* new URL(src, base).toString()                                           *)
(***************************************************************************)
RECURSIVE IndexOfFrom(_, _, _)
IndexOfFrom(s, ch, i) ==
    IF i > Len(s) THEN 0
    ELSE IF CharAt(s, i) = ch THEN i ELSE IndexOfFrom(s, ch, i + 1)

RECURSIVE LastIndexOf(_, _, _)
LastIndexOf(s, ch, i) ==
    IF i < 1 THEN 0
    ELSE IF CharAt(s, i) = ch THEN i ELSE LastIndexOf(s, ch, i - 1)

HasScheme(src) == StartsWith(src, "http://") \/ StartsWith(src, "https://")

\* Where the path of an absolute URL starts; 0 when it has none.
PathStart(base) ==
    IndexOfFrom(base, "/", IF StartsWith(base, "https://") THEN 9 ELSE 8)

Origin(base) ==
    IF PathStart(base) = 0 THEN base ELSE SubSeq(base, 1, PathStart(base) - 1)

\* The base up to and including the last "/" of its path.
BaseDir(base) ==
    IF PathStart(base) = 0 THEN base \o "/"
    ELSE SubSeq(base, 1, LastIndexOf(base, "/", Len(base)))

ResolveUrl(src, base) ==
    IF HasScheme(src) THEN src
    ELSE IF StartsWith(src, "/") THEN Origin(base) \o src
    ELSE BaseDir(base) \o src

(***************************************************************************)
(* The sitemap (src/app/sitemap.ts).                                       *)
(***************************************************************************)
\* process.env.NEXT_PUBLIC_SITE_URL || 'http://localhost:3000'
SitemapBaseUrl(e) ==
    IF Truthy(e.NEXT_PUBLIC_SITE_URL) THEN e.NEXT_PUBLIC_SITE_URL.val
    ELSE "http://localhost:3000"

\* new Date(text), and new Date() at the clock's time.
DateOf(text) == [date |-> text]
DateNow(clock) == [date |-> "now-" \o ToString(clock)]

LastModifiedCreatedOnly(record) == DateOf(record.createdAt)

\* new Date(record.updatedAt || record.createdAt)
LastModified(record) ==
    DateOf(IF Truthy(record.updatedAt) THEN record.updatedAt.val ELSE record.createdAt)

StaticPages(baseUrl, clock) ==
    <<[url |-> baseUrl, lastModified |-> DateNow(clock),
       changeFrequency |-> "daily", priority |-> "1"]>>

PostEntry(baseUrl, post) ==
    [url |-> baseUrl \o "/blog/" \o post.slug, lastModified |-> LastModified(post),
     changeFrequency |-> "weekly", priority |-> "0.8"]

CategoryEntryAsPost(baseUrl, category) == PostEntry(baseUrl, category)

CategoryEntry(baseUrl, category) ==
    [url |-> baseUrl \o "/category/" \o category.slug,
     lastModified |-> LastModified(category),
     changeFrequency |-> "weekly", priority |-> "0.7"]

SitemapRequests == <<GetBlogPostsRequest(Num(1), Num(1000)), GetCategoriesRequest>>

\* One run of sitemap(), given the answers the CMS has for its two calls.
SitemapRun(e, clock, answers) ==
    [calls |-> CallsMade(SitemapRequests, answers),
     output |->
        IF Failed(answers) THEN Failure(answers)
        ELSE LET posts == answers[1].json.data
                 categories == answers[2].json.data
                 baseUrl == SitemapBaseUrl(e)
             IN  Returned(
                    StaticPages(baseUrl, clock)
                    \o [i \in 1..Len(posts) |-> PostEntry(baseUrl, posts[i])]
                    \o [i \in 1..Len(categories) |->
                            CategoryEntry(baseUrl, categories[i])])]

sitemap ==
    /\ handler = "none"
    /\ \E clock \in Clocks,
          a1 \in FetchAnswers(cms, SitemapRequests[1]),
          a2 \in FetchAnswers(cms, SitemapRequests[2]) :
        LET run == SitemapRun(env, clock, <<a1, a2>>)
        IN  /\ handler' = "sitemap"
            /\ input' = [clock |-> clock]
            /\ calls' = run.calls
            /\ tags' = <<>>
            /\ output' = run.output
            /\ UNCHANGED <<cms, env>>

(***************************************************************************)
(* The categories page and the sidebar.                                    *)
(***************************************************************************)
\* CategoriesPage: one link per category.
CategoriesPageRun(answers) ==
    [calls |-> CallsMade(<<GetCategoriesRequest>>, answers),
     output |->
        IF Failed(answers) THEN Failure(answers)
        ELSE [outcome |-> "rendered", categories |-> answers[1].json.data]]

CategoriesPage ==
    /\ handler = "none"
    /\ \E a1 \in FetchAnswers(cms, GetCategoriesRequest) :
        LET run == CategoriesPageRun(<<a1>>)
        IN  /\ handler' = "CategoriesPage"
            /\ input' = <<>>
            /\ calls' = run.calls
            /\ tags' = <<>>
            /\ output' = run.output
            /\ UNCHANGED <<cms, env>>

\* categories.sort((a, b) => parseInt(a.description, 10) - parseInt(b.description, 10)):
\* an insertion sort that moves an element left past those the comparator
\* puts after it; a NaN difference moves nothing.
ComesBefore(a, b) == NumLt(ParseInt(a.description), ParseInt(b.description))

RECURSIVE InsertSorted(_, _)
InsertSorted(sorted, x) ==
    IF Len(sorted) >= 1 /\ ComesBefore(x, sorted[Len(sorted)])
    THEN InsertSorted(SubSeq(sorted, 1, Len(sorted) - 1), x) \o <<sorted[Len(sorted)]>>
    ELSE sorted \o <<x>>

RECURSIVE SortCategories(_)
SortCategories(categories) ==
    IF Len(categories) = 0 THEN <<>>
    ELSE InsertSorted(SortCategories(SubSeq(categories, 1, Len(categories) - 1)),
                      categories[Len(categories)])

FixedPostSlug == "my_bike"

SidebarRequests ==
    <<GetBlogPostsRequest(Num(1), Num(5)), GetCategoriesRequest,
      GetPostBySlugRequest(FixedPostSlug)>>

SidebarRunDegrades(e, answers) ==
    [calls |-> CallsMadeDespiteFailure(SidebarRequests, answers),
     output |->
        [outcome |-> "rendered",
         recentPosts |-> IF answers[1].ok THEN answers[1].json.data ELSE <<>>,
         categories |-> IF answers[2].ok THEN SortCategories(answers[2].json.data)
                        ELSE <<>>,
         fixedPost |-> IF answers[3].ok THEN FirstOrNull(answers[3].json.data) ELSE Null,
         fixedPostImageUrl |-> None]]

\* One run of Sidebar, given the answers the CMS has for its three calls.
SidebarRun(e, answers) ==
    [calls |-> CallsMade(SidebarRequests, answers),
     output |->
        IF Failed(answers) THEN Failure(answers)
        ELSE LET fixedPost == FirstOrNull(answers[3].json.data)
             IN  [outcome |-> "rendered",
                  recentPosts |-> answers[1].json.data,
                  categories |-> SortCategories(answers[2].json.data),
                  fixedPost |-> fixedPost,
                  fixedPostImageUrl |->
                     IF ~fixedPost.null /\ fixedPost.value.cover.kind = "flat"
                        /\ fixedPost.value.cover.url # ""
                     THEN Some(ResolveUrl(fixedPost.value.cover.url,
                                          e.NEXT_PUBLIC_API_URL.val))
                     ELSE None]]

Sidebar ==
    /\ handler = "none"
    /\ \E a1 \in FetchAnswers(cms, SidebarRequests[1]),
          a2 \in FetchAnswers(cms, SidebarRequests[2]),
          a3 \in FetchAnswers(cms, SidebarRequests[3]) :
        LET run == SidebarRun(env, <<a1, a2, a3>>)
        IN  /\ handler' = "Sidebar"
            /\ input' = <<>>
            /\ calls' = run.calls
            /\ tags' = <<>>
            /\ output' = run.output
            /\ UNCHANGED <<cms, env>>

(***************************************************************************)
(* The detail page (src/app/blog/[slug]/page.tsx).                         *)
(***************************************************************************)
\* encodeURIComponent: letters, digits and - _ . ! ~ * ' ( ) stay, every
\* other character becomes its %XX escape.
Escapes ==
    <<<<":", "%3A">>, <<"/", "%2F">>, <<"?", "%3F">>, <<"=", "%3D">>,
      <<"&", "%26">>, <<" ", "%20">>, <<"%", "%25">>, <<"#", "%23">>,
      <<"+", "%2B">>, <<"[", "%5B">>, <<"]", "%5D">>, <<"$", "%24">>,
      <<",", "%2C">>, <<"@", "%40">>, <<";", "%3B">>>>

EscapeOf(ch) ==
    IF \E k \in 1..Len(Escapes) : Escapes[k][1] = ch
    THEN Escapes[CHOOSE k \in 1..Len(Escapes) : Escapes[k][1] = ch][2]
    ELSE ch

RECURSIVE EncodeURIComponent(_)
EncodeURIComponent(text) ==
    IF Len(text) = 0 THEN ""
    ELSE EscapeOf(CharAt(text, 1)) \o EncodeURIComponent(SubSeq(text, 2, Len(text)))

DetailSlugs == {"abc", "my_bike", "post-3", "missing"}

\* generateMetadata: the title "Post Not Found" for no post, else the post's
\* title and, for a cover with a url, the Open Graph image served through the
\* site's image optimizer.
GenerateMetadataRun(e, slug, answers) ==
    [calls |-> CallsMade(<<GetPostBySlugRequest(slug)>>, answers),
     output |->
        IF Failed(answers) THEN Failure(answers)
        ELSE LET post == FirstOrNull(answers[1].json.data)
             IN  IF post.null
                 THEN Returned([title |-> "Post Not Found"])
                 ELSE Returned(
                    [title |-> post.value.title,
                     openGraphImage |->
                        IF post.value.cover.kind = "flat" /\ post.value.cover.url # ""
                        THEN Some((IF Truthy(e.NEXT_PUBLIC_SITE_URL)
                                   THEN e.NEXT_PUBLIC_SITE_URL.val ELSE "")
                                  \o "/_next/image?url="
                                  \o EncodeURIComponent(
                                        ResolveUrl(post.value.cover.url,
                                                   e.NEXT_PUBLIC_API_URL.val))
                                  \o "&w=1200&q=75")
                        ELSE None])]

generateMetadata ==
    /\ handler = "none"
    /\ \E slug \in DetailSlugs :
       \E a1 \in FetchAnswers(cms, GetPostBySlugRequest(slug)) :
        LET run == GenerateMetadataRun(env, slug, <<a1>>)
        IN  /\ handler' = "generateMetadata"
            /\ input' = [slug |-> slug]
            /\ calls' = run.calls
            /\ tags' = <<>>
            /\ output' = run.output
            /\ UNCHANGED <<cms, env>>

NotFoundBody == "404 - Blog post not found"

BlogPostPageRunThrowsOnMissing(e, slug, answers) ==
    [calls |-> CallsMade(<<GetPostBySlugRequest(slug)>>, answers),
     output |-> IF Failed(answers) THEN Failure(answers)
                ELSE [outcome |-> "throw", error |-> "not found", jsonRead |-> TRUE]]

\* BlogPostPage: the 404 text for no post; else the title, the cover image
\* when cover.data.attributes.url is there (its src is that url as it is),
\* and the content with each image's src resolved against the API base URL.
BlogPostPageRun(e, slug, answers) ==
    [calls |-> CallsMade(<<GetPostBySlugRequest(slug)>>, answers),
     output |->
        IF Failed(answers) THEN Failure(answers)
        ELSE LET post == FirstOrNull(answers[1].json.data)
             IN  IF post.null
                 THEN [outcome |-> "rendered", body |-> NotFoundBody]
                 ELSE [outcome |-> "rendered",
                       body |-> "post",
                       title |-> post.value.title,
                       cover |-> IF post.value.cover.kind = "nested"
                                    /\ post.value.cover.url # ""
                                 THEN Some(post.value.cover.url) ELSE None,
                       images |-> [i \in 1..Len(post.value.images) |->
                                     ResolveUrl(post.value.images[i],
                                                e.NEXT_PUBLIC_API_URL.val)]]]

BlogPostPage ==
    /\ handler = "none"
    /\ \E slug \in DetailSlugs :
       \E a1 \in FetchAnswers(cms, GetPostBySlugRequest(slug)) :
        LET run == BlogPostPageRun(env, slug, <<a1>>)
        IN  /\ handler' = "BlogPostPage"
            /\ input' = [slug |-> slug]
            /\ calls' = run.calls
            /\ tags' = <<>>
            /\ output' = run.output
            /\ UNCHANGED <<cms, env>>

SiteEnv(api, site) ==
    [STRAPI_REVALIDATE_TOKEN |-> Some("s3cret"),
     NEXT_PUBLIC_API_URL |-> Some(api),
     NEXT_PUBLIC_SITE_URL |-> site]
SiteEnvs ==
    {SiteEnv("http://cms.example:1337", None),
     SiteEnv("http://cms.example:1337", Some("")),
     SiteEnv("http://cms.example:1337", Some("https://blog.example")),
     SiteEnv("https://cms.example/strapi/", Some("https://blog.example"))}

SiteInit ==
    /\ cms \in CmsSites
    /\ env \in SiteEnvs
    /\ handler = "none"
    /\ input = <<>>
    /\ calls = <<>>
    /\ tags = <<>>
    /\ output = <<>>

SiteNext ==
    \/ getBlogPosts
    \/ getPostBySlug
    \/ getCategories
    \/ getPostsByCategory
    \/ sitemap
    \/ CategoriesPage
    \/ Sidebar
    \/ generateMetadata
    \/ BlogPostPage
    \/ BlogListPage
    \/ CategoryPage
    \/ Respond

SiteSpec == SiteInit /\ [][SiteNext]_vars

(***************************************************************************)
(* The query string as text, and its inverse parser.                       *)
(***************************************************************************)
\* The %XX escapes of the punctuation that may occur in keys and values.
QsEscapes ==
    <<<<":", "%3A">>, <<"/", "%2F">>, <<"?", "%3F">>, <<"=", "%3D">>,
      <<"&", "%26">>, <<" ", "%20">>, <<"%", "%25">>, <<"#", "%23">>,
      <<"+", "%2B">>, <<"[", "%5B">>, <<"]", "%5D">>, <<"$", "%24">>,
      <<",", "%2C">>, <<"@", "%40">>, <<";", "%3B">>, <<"!", "%21">>,
      <<"*", "%2A">>, <<"'", "%27">>, <<"(", "%28">>, <<")", "%29">>>>

QsEscapeOf(ch) ==
    IF \E k \in 1..Len(QsEscapes) : QsEscapes[k][1] = ch
    THEN QsEscapes[CHOOSE k \in 1..Len(QsEscapes) : QsEscapes[k][1] = ch][2]
    ELSE ch

QsEncodeNothing(text) == text

\* The encoder of qs.stringify: letters, digits and - . _ ~ stay, every
\* other character becomes its %XX escape.
RECURSIVE QsEncode(_)
QsEncode(text) ==
    IF Len(text) = 0 THEN ""
    ELSE QsEscapeOf(CharAt(text, 1)) \o QsEncode(SubSeq(text, 2, Len(text)))

\* The string qs.stringify returns: key=value joined by "&", both encoded.
RECURSIVE QsText(_)
QsText(search) ==
    IF Len(search) = 0 THEN ""
    ELSE QsEncode(search[1].key) \o "=" \o QsEncode(search[1].value)
         \o (IF Len(search) = 1 THEN ""
             ELSE "&" \o QsText(SubSeq(search, 2, Len(search))))

\* The inverse parser: "+" and %XX escapes are decoded,
RECURSIVE QsDecode(_)
QsDecode(text) ==
    IF Len(text) = 0 THEN ""
    ELSE IF /\ CharAt(text, 1) = "%"
            /\ Len(text) >= 3
            /\ \E k \in 1..Len(QsEscapes) : QsEscapes[k][2] = SubSeq(text, 1, 3)
    THEN QsEscapes[CHOOSE k \in 1..Len(QsEscapes) :
                        QsEscapes[k][2] = SubSeq(text, 1, 3)][1]
         \o QsDecode(SubSeq(text, 4, Len(text)))
    ELSE (IF CharAt(text, 1) = "+" THEN " " ELSE CharAt(text, 1))
         \o QsDecode(SubSeq(text, 2, Len(text)))

\* the text is split at each separator,
RECURSIVE Split(_, _)
Split(text, sep) ==
    IF IndexOfFrom(text, sep, 1) = 0 THEN <<text>>
    ELSE <<SubSeq(text, 1, IndexOfFrom(text, sep, 1) - 1)>>
         \o Split(SubSeq(text, IndexOfFrom(text, sep, 1) + 1, Len(text)), sep)

\* a parameter is split at its first "=" and both sides are decoded,
QsParameter(part) ==
    LET eq == IndexOfFrom(part, "=", 1)
    IN  IF eq = 0 THEN [key |-> QsDecode(part), value |-> ""]
        ELSE [key |-> QsDecode(SubSeq(part, 1, eq - 1)),
              value |-> QsDecode(SubSeq(part, eq + 1, Len(part)))]

\* a key a[b][c] names the path a, b, c,
RECURSIVE BracketPath(_)
BracketPath(rest) ==
    IF Len(rest) = 0 \/ CharAt(rest, 1) # "[" \/ IndexOfFrom(rest, "]", 1) = 0
    THEN <<>>
    ELSE <<SubSeq(rest, 2, IndexOfFrom(rest, "]", 1) - 1)>>
         \o BracketPath(SubSeq(rest, IndexOfFrom(rest, "]", 1) + 1, Len(rest)))

KeyPath(key) ==
    IF IndexOfFrom(key, "[", 1) = 0 THEN <<key>>
    ELSE <<SubSeq(key, 1, IndexOfFrom(key, "[", 1) - 1)>>
         \o BracketPath(SubSeq(key, IndexOfFrom(key, "[", 1), Len(key)))

\* and the value is put at its path in the object built so far.
RECURSIVE PutAt(_, _, _)
PutAt(node, path, text) ==
    IF Len(path) = 0 THEN Leaf(text)
    ELSE LET items == IF node.kind = "object" THEN node.items ELSE <<>>
             rest == SubSeq(path, 2, Len(path))
         IN  IF \E i \in 1..Len(items) : items[i][1] = path[1]
             THEN Obj([i \in 1..Len(items) |->
                        IF items[i][1] = path[1]
                        THEN <<path[1], PutAt(items[i][2], rest, text)>>
                        ELSE items[i]])
             ELSE Obj(items \o << <<path[1], PutAt(Obj(<<>>), rest, text)>> >>)

RECURSIVE PutAll(_, _, _)
PutAll(node, parts, i) ==
    IF i > Len(parts) THEN node
    ELSE PutAll(PutAt(node, KeyPath(QsParameter(parts[i]).key),
                      QsParameter(parts[i]).value),
                parts, i + 1)

QsParse(text) ==
    IF text = "" THEN Obj(<<>>) ELSE PutAll(Obj(<<>>), Split(text, "&"), 1)

\* What a parsed object holds at a path: a leaf's text, None when there is
\* no leaf there.
RECURSIVE ValueAt(_, _)
ValueAt(node, path) ==
    IF Len(path) = 0
    THEN (IF node.kind = "leaf" THEN Some(node.text) ELSE None)
    ELSE IF node.kind = "object"
            /\ \E i \in 1..Len(node.items) : node.items[i][1] = path[1]
    THEN ValueAt(node.items[CHOOSE i \in 1..Len(node.items) :
                                node.items[i][1] = path[1]][2],
                 SubSeq(path, 2, Len(path)))
    ELSE None

(***************************************************************************)
(* The Content Client building its query strings, on its own.              *)
(***************************************************************************)
MaxQueryPage == 3

QuerySlugs ==
    PostSlugs \cup CategorySlugs
        \cup {"x", "a b&c=d%[e]", "r&d=100%+x", "my_bike", "caf/e?#1"}
QueryPages == {Num(n) : n \in (-1)..MaxQueryPage} \cup {NaN}
QueryPageSizes == {Num(1), Num(5), Num(10), Num(1000)}

\* getPostBySlug up to url.search = query.
getPostBySlugQuery ==
    /\ handler = "none"
    /\ \E slug \in QuerySlugs :
        /\ handler' = "getPostBySlugQuery"
        /\ input' = [slug |-> slug]
        /\ output' = [search |-> GetPostBySlugRequest(slug).search,
                      query |-> QsText(GetPostBySlugRequest(slug).search)]
        /\ UNCHANGED <<cms, env, calls, tags>>

\* getPostsByCategory up to url.search = query.
getPostsByCategoryQuery ==
    /\ handler = "none"
    /\ \E slug \in QuerySlugs, page \in QueryPages, pageSize \in QueryPageSizes :
        LET request == GetPostsByCategoryRequest(slug, page, pageSize)
        IN  /\ handler' = "getPostsByCategoryQuery"
            /\ input' = [categorySlug |-> slug, page |-> page, pageSize |-> pageSize]
            /\ output' = [search |-> request.search, query |-> QsText(request.search)]
            /\ UNCHANGED <<cms, env, calls, tags>>

QueryInit ==
    /\ cms = [posts |-> <<>>, categories |-> <<>>]
    /\ env = SiteEnv("http://cms.example:1337", None)
    /\ handler = "none"
    /\ input = <<>>
    /\ calls = <<>>
    /\ tags = <<>>
    /\ output = <<>>

QueryNext ==
    \/ getPostBySlugQuery
    \/ getPostsByCategoryQuery
    \/ Respond

QuerySpec == QueryInit /\ [][QueryNext]_vars

(***************************************************************************)
(* One Sidebar render, await by await.                                     *)
(***************************************************************************)
\* A fetch that has been issued and has not settled.
Pending == [kind |-> "pending", ok |-> FALSE, status |-> 0, text |-> "", json |-> <<>>]

Settled(call) == call.answer.kind # "pending"

AnswersOf(made) == [i \in 1..Len(made) |-> made[i].answer]

SidebarBeginAllAtOnce ==
    /\ handler = "none"
    /\ handler' = "SidebarAwaiting"
    /\ input' = <<>>
    /\ calls' = [i \in 1..Len(SidebarRequests) |->
                    [request |-> SidebarRequests[i], answer |-> Pending]]
    /\ tags' = <<>>
    /\ output' = <<>>
    /\ UNCHANGED <<cms, env>>

\* Sidebar up to its first await: getBlogPosts(1, 5) has issued its fetch.
SidebarBegin ==
    /\ handler = "none"
    /\ handler' = "SidebarAwaiting"
    /\ input' = <<>>
    /\ calls' = <<[request |-> SidebarRequests[1], answer |-> Pending]>>
    /\ tags' = <<>>
    /\ output' = <<>>
    /\ UNCHANGED <<cms, env>>

\* The awaited fetch settles and Sidebar runs on to its next await, to its
\* return or to the throw.
SidebarResume ==
    /\ handler = "SidebarAwaiting"
    /\ ~Settled(calls[Len(calls)])
    /\ \E answer \in FetchAnswers(cms, calls[Len(calls)].request) :
        LET made == [calls EXCEPT ![Len(calls)].answer = answer]
        IN  IF ~answer.ok
            THEN /\ handler' = "Sidebar"
                 /\ calls' = made
                 /\ output' = Thrown(FetchData(answer))
            ELSE IF Len(made) < Len(SidebarRequests)
            THEN /\ handler' = "SidebarAwaiting"
                 /\ calls' = made \o <<[request |-> SidebarRequests[Len(made) + 1],
                                        answer |-> Pending]>>
                 /\ output' = <<>>
            ELSE /\ handler' = "Sidebar"
                 /\ calls' = made
                 /\ output' = SidebarRun(env, AnswersOf(made)).output
    /\ UNCHANGED <<cms, env, input, tags>>

\* The render is over.
SidebarEnd ==
    /\ handler = "Sidebar"
    /\ Respond

SidebarNext ==
    \/ SidebarBegin
    \/ SidebarResume
    \/ SidebarEnd

SidebarSpec == SiteInit /\ [][SidebarNext]_vars

(***************************************************************************)
(* The header: HeaderData (server) and Header (client).                    *)
(***************************************************************************)
\* What Header shows for its props and its state: the navigation links and,
\* when the menu is open, the dropdown's links.  event is the event that
\* led to this render, clicks the number of clicks handled so far.
MaxClicks == 3

HeaderView(categories, isMenuOpen, event, clicks) ==
    [outcome |-> "rendered",
     categories |-> categories,
     isMenuOpen |-> isMenuOpen,
     navigation |-> [i \in 1..Len(categories) |-> "/category/" \o categories[i].slug],
     dropdown |-> IF isMenuOpen
                  THEN [i \in 1..Len(categories) |-> "/category/" \o categories[i].slug]
                  ELSE <<>>,
     event |-> event,
     clicks |-> clicks]

\* HeaderData: the categories, sorted, become Header's props; useState(false).
HeaderDataRun(answers) ==
    [calls |-> CallsMade(<<GetCategoriesRequest>>, answers),
     output |->
        IF Failed(answers) THEN Failure(answers)
        ELSE HeaderView(SortCategories(answers[1].json.data), FALSE, "mount", 0)]

HeaderData ==
    /\ handler = "none"
    /\ \E a1 \in FetchAnswers(cms, GetCategoriesRequest) :
        LET run == HeaderDataRun(<<a1>>)
        IN  /\ handler' = "HeaderData"
            /\ input' = <<>>
            /\ calls' = run.calls
            /\ tags' = <<>>
            /\ output' = run.output
            /\ UNCHANGED <<cms, env>>

HeaderShown == handler = "HeaderData" /\ output.outcome = "rendered"

MenuButtonClickOpens ==
    /\ HeaderShown
    /\ output.clicks < MaxClicks
    /\ output' = HeaderView(output.categories, TRUE, "button", output.clicks + 1)
    /\ UNCHANGED <<cms, env, handler, input, calls, tags>>

\* onClick={() => setIsMenuOpen(!isMenuOpen)}
MenuButtonClick ==
    /\ HeaderShown
    /\ output.clicks < MaxClicks
    /\ output' = HeaderView(output.categories, ~output.isMenuOpen, "button",
                            output.clicks + 1)
    /\ UNCHANGED <<cms, env, handler, input, calls, tags>>

\* A link of the dropdown: onClick={() => setIsMenuOpen(false)}
CategoryLinkClick ==
    /\ HeaderShown
    /\ output.clicks < MaxClicks
    /\ \E i \in 1..Len(output.dropdown) :
        output' = HeaderView(output.categories, FALSE, "link", output.clicks + 1)
    /\ UNCHANGED <<cms, env, handler, input, calls, tags>>

\* The page is left.
HeaderEnd ==
    /\ handler = "HeaderData"
    /\ Respond

HeaderNext ==
    \/ HeaderData
    \/ MenuButtonClick
    \/ CategoryLinkClick
    \/ HeaderEnd

HeaderSpec == SiteInit /\ [][HeaderNext]_vars

(***************************************************************************)
(* Properties of the cache-invalidation endpoint.                          *)
(***************************************************************************)
\* The request carries exactly "Bearer <secret>" for the configured secret.
CorrectToken ==
    /\ env.STRAPI_REVALIDATE_TOKEN.has
    /\ input.authorization = Some("Bearer " \o env.STRAPI_REVALIDATE_TOKEN.val)

TagSet == {tags[i] : i \in 1..Len(tags)}

\* The event name indicates a content mutation: it starts with "entry.".
MutationEvent ==
    input.body.event.has /\ StartsWith(input.body.event.val, "entry.")

\* The entry carries a slug (an absent or empty slug is no slug).
CarriesSlug ==
    input.body.entry.has /\ input.body.entry.slug.has /\ input.body.entry.slug.val # ""

\* C1: with a secret configured, every POST whose Authorization header is
\* missing or differs from "Bearer <secret>" is answered 401
\* {message: "Invalid token"}, whatever its body is.
C1_WrongTokenIs401 ==
    (handler = "POST" /\ env.STRAPI_REVALIDATE_TOKEN.has /\ ~CorrectToken) =>
        /\ output.outcome = "response"
        /\ output.response = [status |-> 401, body |-> [message |-> "Invalid token"]]

C1_Witness ==
    /\ handler = "POST"
    /\ env.STRAPI_REVALIDATE_TOKEN = Some("s3cret")
    /\ input.authorization = Some("Bearer wrong")
    /\ input.body.kind = "object"
    /\ input.body.event = Some("entry.update")
    /\ input.body.model = Some("blog")
    /\ output.response.status = 401

\* C2: an authorized POST with model "blog" and a mutation event invalidates
\* exactly {blog_posts} when the entry has no slug and exactly
\* {blog_posts, blog_post:<slug>} when it carries slug <slug>.
C2_BlogTags ==
    (/\ handler = "POST" /\ CorrectToken
     /\ input.body.kind = "object"
     /\ input.body.model = Some("blog")
     /\ MutationEvent) =>
        TagSet = IF CarriesSlug
                 THEN {"blog_posts", "blog_post:" \o input.body.entry.slug.val}
                 ELSE {"blog_posts"}

C2_Witness ==
    /\ handler = "POST" /\ CorrectToken
    /\ input.body.kind = "object"
    /\ input.body.event = Some("entry.update")
    /\ input.body.model = Some("blog")
    /\ input.body.entry = [has |-> TRUE, slug |-> Some("abc")]
    /\ tags = <<"blog_posts", "blog_post:abc">>

\* C3: an authorized POST with model "category" and a mutation event
\* invalidates exactly {categories} when the entry has no slug and exactly
\* {categories, category:<slug>} when it carries slug <slug>; no blog tag.
C3_CategoryTags ==
    (/\ handler = "POST" /\ CorrectToken
     /\ input.body.kind = "object"
     /\ input.body.model = Some("category")
     /\ MutationEvent) =>
        /\ TagSet = IF CarriesSlug
                    THEN {"categories", "category:" \o input.body.entry.slug.val}
                    ELSE {"categories"}
        /\ \A t \in TagSet : ~StartsWith(t, "blog_post")

C3_Witness ==
    /\ handler = "POST" /\ CorrectToken
    /\ input.body.kind = "object"
    /\ input.body.event = Some("entry.delete")
    /\ input.body.model = Some("category")
    /\ input.body.entry = [has |-> TRUE, slug |-> Some("road")]
    /\ tags = <<"categories", "category:road">>

\* C4: an authorized POST whose model is neither "blog" nor "category", or
\* whose event is absent or does not start with "entry.", invalidates no tag.
C4_OtherIsNoOp ==
    (/\ handler = "POST" /\ CorrectToken
     /\ \/ input.body.model \notin {Some("blog"), Some("category")}
        \/ ~MutationEvent) =>
        tags = <<>>

C4_Witness ==
    /\ handler = "POST" /\ CorrectToken
    /\ input.body.kind = "object"
    /\ input.body.event = Some("media.update")
    /\ input.body.model = Some("blog")
    /\ input.body.entry = [has |-> TRUE, slug |-> Some("abc")]
    /\ tags = <<>>
    /\ output.outcome = "response"

\* C5: every authorized POST with a JSON object body {event, model, entry?}
\* is answered {revalidated: true, now: <timestamp>}, whether zero, one or
\* two tags were invalidated.
C5_AlwaysAcknowledged ==
    (handler = "POST" /\ CorrectToken /\ input.body.kind = "object") =>
        /\ output.outcome = "response"
        /\ output.response.status = 200
        /\ output.response.body = [revalidated |-> TRUE, now |-> input.clock]
        /\ Len(tags) \in {0, 1, 2}

C5_Witness ==
    /\ handler = "POST" /\ CorrectToken
    /\ input.body.kind = "object"
    /\ input.body.event = Some("entry.update")
    /\ input.body.model = Some("author")
    /\ tags = <<>>
    /\ output.response.body = [revalidated |-> TRUE, now |-> input.clock]

\* C6: an authorized POST whose body cannot be parsed as JSON is answered
\* 400 {message: "Bad request"} and invalidates no tag.
C6_UnparseableIs400 ==
    (handler = "POST" /\ CorrectToken /\ input.body.kind = "unparseable") =>
        /\ output.outcome = "response"
        /\ output.response = [status |-> 400, body |-> [message |-> "Bad request"]]
        /\ tags = <<>>

(***************************************************************************)
(* Properties of the page assemblers and of getPostBySlug.                 *)
(***************************************************************************)
ListingPages == {"BlogListPage", "CategoryPage"}

\* The answer the CMS gave to the run's (only) call.
Answer == calls[1].answer

\* What the run's request carries under a query-string key.
Sent(key) == QsGet(calls[1].request.search, key)

\* C7: on both listing pages, for 1 <= p <= pageCount (pageCount from the
\* returned pagination metadata), "Previous" is rendered iff p > 1 and
\* "Next" iff p < pageCount.
C7_PaginationControls ==
    (/\ handler \in ListingPages
     /\ Answer.ok
     /\ ~ParsePage(input.page).nan
     /\ 1 <= ParsePage(input.page).val
     /\ ParsePage(input.page).val <= Answer.json.meta.pagination.pageCount) =>
        /\ output.outcome = "rendered"
        /\ output.pageCount = Answer.json.meta.pagination.pageCount
        /\ output.previous.shown <=> ParsePage(input.page).val > 1
        /\ output.next.shown <=>
              ParsePage(input.page).val < Answer.json.meta.pagination.pageCount

C7_Witness ==
    /\ handler = "BlogListPage"
    /\ input.page = Some("3")
    /\ Answer.ok
    /\ Answer.json.meta.pagination.pageCount = 3
    /\ output.outcome = "rendered"
    /\ output.previous.shown
    /\ ~output.next.shown

HasNoDigit(text) == \A i \in 1..Len(text) : ~IsDigit(CharAt(text, i))

\* C8: on both listing pages an absent `page` parameter and every
\* non-numeric value yield page 1, a numeric value n yields page n, and
\* the page size sent to the Content Client is 10.
C8_PageDefaultsToOne ==
    handler \in ListingPages =>
        /\ (~input.page.has \/ HasNoDigit(input.page.val)) =>
              Sent("pagination[page]") = "1"
        /\ \A n \in 0..MaxPosts :
              input.page = Some(ToString(n)) => Sent("pagination[page]") = ToString(n)
        /\ Sent("pagination[pageSize]") = "10"

\* The posts of the CMS whose slug is exactly s, in the CMS's order.
PostsWithSlug(s) == SelectSeq(cms.posts, LAMBDA p : p.slug = s)

\* C9: getPostBySlug(s) returns a post iff the CMS holds a post whose slug is
\* exactly s; on a successful answer with zero matches it returns null and
\* does not throw; of several matches it yields only the first; it throws
\* only when the CMS call failed.
C9_GetPostBySlug ==
    handler = "getPostBySlug" =>
        /\ output.outcome = "throw" <=> ~Answer.ok
        /\ Answer.ok =>
            /\ output.outcome = "returned"
            /\ ~output.result.null <=> \E i \in 1..Len(cms.posts) : cms.posts[i].slug = input.slug
            /\ ~output.result.null => output.result.value = PostsWithSlug(input.slug)[1]

C9_Witness ==
    /\ handler = "getPostBySlug"
    /\ input.slug = "abc"
    /\ Len(PostsWithSlug("abc")) = 2
    /\ Len(PostsWithSlug("ABC")) = 1
    /\ output.outcome = "returned"
    /\ ~output.result.null
    /\ output.result.value.id = 1

\* C10: when the CMS returns zero posts for the requested category, the
\* category listing page signals not-found and renders neither a post list
\* nor pagination controls.
C10_EmptyCategoryNotFound ==
    (handler = "CategoryPage" /\ Answer.ok /\ Len(Answer.json.data) = 0) =>
        output = [outcome |-> "notFound"]

C10_Witness ==
    /\ handler = "CategoryPage"
    /\ input.slug = "none"
    /\ ~input.page.has
    /\ Len(cms.posts) >= 1
    /\ Answer.ok
    /\ Answer.json.meta.pagination.total = 0
    /\ output.outcome = "notFound"

(***************************************************************************)
(* Properties of the sitemap.                                              *)
(***************************************************************************)
\* The site's base URL as configured, the local default when none is.
Site ==
    IF env.NEXT_PUBLIC_SITE_URL.has /\ env.NEXT_PUBLIC_SITE_URL.val # ""
    THEN env.NEXT_PUBLIC_SITE_URL.val
    ELSE "http://localhost:3000"

\* The sitemap ran and both of its CMS calls succeeded.
SitemapFetched ==
    /\ handler = "sitemap"
    /\ Len(calls) = 2
    /\ calls[1].answer.ok
    /\ calls[2].answer.ok

FetchedPosts == calls[1].answer.json.data
FetchedCategories == calls[2].answer.json.data

\* C11: for successful answers with posts P and categories C the sitemap has
\* exactly 1 + |P| + |C| entries: exactly one home entry with priority 1.0,
\* one entry per fetched post with priority 0.8 and URL <site>/blog/<slug>,
\* one entry per fetched category with priority 0.7 and URL
\* <site>/category/<slug>.
C11_SitemapEntries ==
    SitemapFetched =>
        /\ output.outcome = "returned"
        /\ Len(output.result) = 1 + Len(FetchedPosts) + Len(FetchedCategories)
        /\ Cardinality({i \in 1..Len(output.result) :
                            output.result[i].priority = "1"}) = 1
        /\ output.result[1].url = Site
        /\ output.result[1].priority = "1"
        /\ \A i \in 1..Len(FetchedPosts) :
            /\ output.result[1 + i].priority = "0.8"
            /\ output.result[1 + i].url = Site \o "/blog/" \o FetchedPosts[i].slug
        /\ \A i \in 1..Len(FetchedCategories) :
            LET entry == output.result[1 + Len(FetchedPosts) + i]
            IN  /\ entry.priority = "0.7"
                /\ entry.url = Site \o "/category/" \o FetchedCategories[i].slug

C11_Witness ==
    /\ SitemapFetched
    /\ Len(FetchedPosts) = 3
    /\ Len(FetchedCategories) = 2
    /\ env.NEXT_PUBLIC_SITE_URL = Some("https://blog.example")
    /\ Len(output.result) = 6
    /\ output.result[2].url = "https://blog.example/blog/post-3"
    /\ output.result[6].url = "https://blog.example/category/cat-2"

\* The timestamp a record's sitemap entry must carry.
UpdateElseCreation(record) ==
    [date |-> IF record.updatedAt.has THEN record.updatedAt.val ELSE record.createdAt]

\* C12: every post entry and every category entry of the sitemap has as
\* lastModified the record's update timestamp when the record has one and
\* its creation timestamp otherwise.
C12_LastModified ==
    SitemapFetched =>
        /\ \A i \in 1..Len(FetchedPosts) :
            output.result[1 + i].lastModified = UpdateElseCreation(FetchedPosts[i])
        /\ \A i \in 1..Len(FetchedCategories) :
            output.result[1 + Len(FetchedPosts) + i].lastModified
                = UpdateElseCreation(FetchedCategories[i])

C12_Witness ==
    /\ SitemapFetched
    /\ Len(FetchedPosts) = 3
    /\ Len(FetchedCategories) = 3
    /\ FetchedPosts[1].updatedAt.has
    /\ ~FetchedPosts[2].updatedAt.has
    /\ output.result[2].lastModified = [date |-> "updated-3"]
    /\ output.result[3].lastModified = [date |-> "created-2"]
    /\ output.result[5].lastModified = [date |-> "updated-c1"]
    /\ output.result[7].lastModified = [date |-> "created-c3"]

(***************************************************************************)
(* Properties of the Content Client.                                       *)
(***************************************************************************)
ClientOperations ==
    {"getBlogPosts", "getPostBySlug", "getCategories", "getPostsByCategory"}

\* C13: when the CMS answers one of the four Content Client operations with
\* a non-success status, the operation throws an error carrying the status
\* and the response body text, the response is not parsed as JSON and no
\* data is returned.
C13_HttpFailureThrows ==
    (handler \in ClientOperations /\ Answer.kind = "http" /\ ~Answer.ok) =>
        output = [outcome |-> "throw",
                  error |-> "API error: " \o ToString(Answer.status)
                                \o " - " \o Answer.text,
                  jsonRead |-> FALSE]

C13_Witness ==
    /\ handler = "getPostsByCategory"
    /\ Answer.kind = "http"
    /\ Answer.status = 404
    /\ output.outcome = "throw"
    /\ output.error = "API error: 404 - Not Found"
    /\ ~output.jsonRead

(***************************************************************************)
(* Properties of the page assemblers' CMS calls.                           *)
(***************************************************************************)
Assemblers ==
    {"BlogListPage", "CategoryPage", "CategoriesPage", "Sidebar", "sitemap",
     "BlogPostPage", "generateMetadata"}

\* C14: a failed CMS call aborts the assembler that issued it: the failed
\* call is the last call of the run, its request was issued only once, and
\* the run ends in the thrown error, with nothing rendered or returned.
C14_FailureAborts ==
    handler \in Assemblers =>
        \A i \in 1..Len(calls) :
            ~calls[i].answer.ok =>
                /\ i = Len(calls)
                /\ \A j \in 1..Len(calls) :
                        j # i => calls[j].request # calls[i].request
                /\ output.outcome = "throw"
                /\ DOMAIN output \subseteq {"outcome", "error", "jsonRead"}

C14_Witness ==
    /\ handler = "Sidebar"
    /\ Len(calls) = 2
    /\ calls[1].answer.ok
    /\ Len(calls[1].answer.json.data) = 3
    /\ calls[2].request.path = "/api/categories"
    /\ calls[2].answer.kind = "http"
    /\ calls[2].answer.status = 500
    /\ output.outcome = "throw"

(***************************************************************************)
(* Properties of the Content Client's requests.                            *)
(***************************************************************************)
\* The keys of the run's query string, and those that express a filter.
SentKeys == {calls[1].request.search[i].key : i \in 1..Len(calls[1].request.search)}
IsFilterKey(key) == StartsWith(key, "filters")

ListingKeys ==
    {"populate[cover][fields][0]", "populate[cover][fields][1]",
     "populate[categories][fields][0]", "populate[categories][fields][1]",
     "pagination[page]", "pagination[pageSize]", "sort[0]"}

\* C15: the request of getBlogPosts(page, pageSize) targets /api/blogs and
\* carries sort createdAt descending, the given page and pageSize, populate
\* of cover with fields url and alternativeText, populate of categories with
\* fields name and slug, and nothing else: no filter.
C15_GetBlogPostsRequest ==
    handler = "getBlogPosts" =>
        /\ Len(calls) = 1
        /\ calls[1].request.path = "/api/blogs"
        /\ SentKeys = ListingKeys
        /\ Len(calls[1].request.search) = Cardinality(ListingKeys)
        /\ Sent("sort[0]") = "createdAt:desc"
        /\ Sent("pagination[page]") = NumText(input.page)
        /\ Sent("pagination[pageSize]") = NumText(input.pageSize)
        /\ Sent("populate[cover][fields][0]") = "url"
        /\ Sent("populate[cover][fields][1]") = "alternativeText"
        /\ Sent("populate[categories][fields][0]") = "name"
        /\ Sent("populate[categories][fields][1]") = "slug"
        /\ \A key \in SentKeys : ~IsFilterKey(key)

C15_Witness ==
    /\ handler = "getBlogPosts"
    /\ input.page = Num(2)
    /\ input.pageSize = Num(5)
    /\ Sent("pagination[page]") = "2"
    /\ Sent("pagination[pageSize]") = "5"
    /\ Answer.ok

\* The parameters of the run's query string that are not filters, in order.
SentWithoutFilters ==
    SelectSeq(calls[1].request.search, LAMBDA pair : ~IsFilterKey(pair.key))
SentFilters ==
    SelectSeq(calls[1].request.search, LAMBDA pair : IsFilterKey(pair.key))

\* C16: the request of getPostsByCategory(c, p, n) is the request of
\* getBlogPosts(p, n) (same endpoint, sort, pagination, populate) with
\* exactly one filter added: a related category's slug equals c.
C16_CategoryRequestExtendsListing ==
    handler = "getPostsByCategory" =>
        /\ calls[1].request.path
                = GetBlogPostsRequest(input.page, input.pageSize).path
        /\ SentWithoutFilters
                = GetBlogPostsRequest(input.page, input.pageSize).search
        /\ SentFilters = <<[key |-> "filters[categories][slug][$eq]",
                            value |-> input.categorySlug]>>

C16_Witness ==
    /\ handler = "getPostsByCategory"
    /\ input.categorySlug = "road"
    /\ input.page = Num(2)
    /\ input.pageSize = Num(1)
    /\ Sent("filters[categories][slug][$eq]") = "road"
    /\ Sent("pagination[page]") = "2"
    /\ Answer.ok
    /\ Len(Answer.json.data) = 1

\* C17: getCategories returns every category the CMS holds: its request
\* carries no filter and no pagination, and the list it returns is the
\* answer's data list unchanged.
C17_AllCategories ==
    (handler = "getCategories" /\ Answer.ok) =>
        /\ calls[1].request.search = <<>>
        /\ output.outcome = "returned"
        /\ output.result = Answer.json.data
        /\ output.result = cms.categories

\* What of C17 holds: no filter or pagination is sent and the answer's data
\* list is returned unchanged.
C17_ReturnsAnswerData ==
    (handler = "getCategories" /\ Answer.ok) =>
        /\ calls[1].request.search = <<>>
        /\ output = [outcome |-> "returned", result |-> Answer.json.data]

(***************************************************************************)
(* Properties of the detail page.                                          *)
(***************************************************************************)
DetailHandlers == {"BlogPostPage", "generateMetadata"}

\* getPostBySlug found no post: the CMS answered successfully with no match.
PostNotFound == Answer.ok /\ Len(Answer.json.data) = 0

\* C18: on the detail page a not-found result of getPostBySlug yields the
\* "not found" state, the page body "404 - Blog post not found" and the
\* metadata title "Post Not Found", and not an error; an error arises only
\* from a failed CMS call.
C18_NotFoundState ==
    handler \in DetailHandlers =>
        /\ output.outcome = "throw" => ~Answer.ok
        /\ (handler = "BlogPostPage" /\ PostNotFound) =>
                output = [outcome |-> "rendered", body |-> "404 - Blog post not found"]
        /\ (handler = "generateMetadata" /\ PostNotFound) =>
                output = [outcome |-> "returned",
                          result |-> [title |-> "Post Not Found"]]

C18_Witness ==
    /\ handler = "BlogPostPage"
    /\ input.slug = "missing"
    /\ Len(cms.posts) = 3
    /\ PostNotFound
    /\ output.outcome = "rendered"
    /\ output.body = "404 - Blog post not found"

\* The configured base URL of the CMS.
ApiBase == env.NEXT_PUBLIC_API_URL.val

\* C19: on the detail page, for a post that has a cover image the cover is
\* rendered with the cover URL combined with the configured base URL, an
\* absolute URL, and every in-body image is rendered with its source
\* combined with the configured base URL.
C19_ImageUrlsAbsolute ==
    (handler = "BlogPostPage" /\ Answer.ok /\ Len(Answer.json.data) >= 1) =>
        LET post == Answer.json.data[1]
        IN  /\ post.cover.kind # "none" =>
                /\ output.cover = Some(ResolveUrl(post.cover.url, ApiBase))
                /\ HasScheme(output.cover.val)
            /\ Len(output.images) = Len(post.images)
            /\ \A i \in 1..Len(post.images) :
                output.images[i] = ResolveUrl(post.images[i], ApiBase)

\* What of C19 holds: the in-body images.
C19_BodyImagesResolved ==
    (handler = "BlogPostPage" /\ Answer.ok /\ Len(Answer.json.data) >= 1) =>
        /\ Len(output.images) = Len(Answer.json.data[1].images)
        /\ \A i \in 1..Len(output.images) :
            /\ output.images[i] = ResolveUrl(Answer.json.data[1].images[i], ApiBase)
            /\ HasScheme(output.images[i])

(***************************************************************************)
(* Properties of the Query Builder.                                        *)
(***************************************************************************)
\* The object the inverse parser reconstructs from the produced string.
Parsed == QsParse(output.query)

\* C20: parsing the query string produced for a slug equality filter and a
\* pagination {page, pageSize} reconstructs the same values: the filter's
\* slug, and the page and the pageSize as numbers; the reconstructed object
\* has the parameters of the object that was serialized.
C20_QueryRoundTrip ==
    /\ handler \in {"getPostBySlugQuery", "getPostsByCategoryQuery"} =>
            QsStringify(Parsed) = output.search
    /\ handler = "getPostBySlugQuery" =>
            ValueAt(Parsed, <<"filters", "slug", "$eq">>) = Some(input.slug)
    /\ handler = "getPostsByCategoryQuery" =>
        /\ ValueAt(Parsed, <<"filters", "categories", "slug", "$eq">>)
                = Some(input.categorySlug)
        /\ ValueAt(Parsed, <<"pagination", "page">>).has
        /\ TextNum(ValueAt(Parsed, <<"pagination", "page">>).val) = input.page
        /\ ValueAt(Parsed, <<"pagination", "pageSize">>).has
        /\ TextNum(ValueAt(Parsed, <<"pagination", "pageSize">>).val) = input.pageSize

C20_Witness ==
    /\ handler = "getPostsByCategoryQuery"
    /\ input = [categorySlug |-> "r&d=100%+x", page |-> Num(2), pageSize |-> Num(5)]
    /\ ValueAt(Parsed, <<"filters", "categories", "slug", "$eq">>) = Some("r&d=100%+x")
    /\ ValueAt(Parsed, <<"pagination", "page">>) = Some("2")
    /\ ValueAt(Parsed, <<"pagination", "pageSize">>) = Some("5")
    /\ ValueAt(Parsed, <<"sort", "0">>) = Some("createdAt:desc")

(***************************************************************************)
(* Properties of the Sidebar's calls.                                      *)
(***************************************************************************)
SidebarRunning == handler \in {"SidebarAwaiting", "Sidebar"}

\* C21: within one Sidebar render the CMS calls are issued one after another
\* in the order recent posts (page 1, size 5), categories, featured post
\* lookup, and a call is issued only when every earlier call has completed
\* successfully.
C21_SidebarCallsInOrder ==
    SidebarRunning =>
        /\ Len(calls) \in 1..3
        /\ \A i \in 1..Len(calls) :
            /\ calls[i].request = SidebarRequests[i]
            /\ i < Len(calls) => (Settled(calls[i]) /\ calls[i].answer.ok)
        /\ calls[1].request.path = "/api/blogs"
        /\ QsGet(calls[1].request.search, "pagination[page]") = "1"
        /\ QsGet(calls[1].request.search, "pagination[pageSize]") = "5"
        /\ Len(calls) >= 2 => calls[2].request.path = "/api/categories"
        /\ Len(calls) >= 3 =>
            /\ calls[3].request.path = "/api/blogs"
            /\ QsGet(calls[3].request.search, "filters[slug][$eq]") = "my_bike"

C21_Witness ==
    /\ handler = "SidebarAwaiting"
    /\ Len(calls) = 3
    /\ calls[1].answer.ok
    /\ Len(calls[1].answer.json.data) = 3
    /\ calls[2].answer.ok
    /\ Len(calls[2].answer.json.data) = 25
    /\ ~Settled(calls[3])

(***************************************************************************)
(* Properties of the listing pages beyond the last page.                   *)
(***************************************************************************)
\* C22: the listing page passes the parsed page number on unchanged, also
\* when it exceeds the CMS's pageCount, shows it as the current page, and
\* renders exactly the posts the CMS returned.
C22_NoClamping ==
    handler = "BlogListPage" =>
        /\ Sent("pagination[page]") = NumText(ParsePage(input.page))
        /\ input.page \in {Some("1"), Some("2"), Some("3"), Some("4")} =>
                Sent("pagination[page]") = input.page.val
        /\ Answer.ok =>
            /\ output.outcome = "rendered"
            /\ output.page = ParsePage(input.page)
            /\ output.posts = Answer.json.data

C22_Witness ==
    /\ handler = "BlogListPage"
    /\ input.page = Some("4")
    /\ Sent("pagination[page]") = "4"
    /\ Answer.ok
    /\ Answer.json.meta.pagination.pageCount = 3
    /\ Answer.json.meta.pagination.page = 4
    /\ output.outcome = "rendered"
    /\ output.page = Num(4)
    /\ output.posts = <<>>

(***************************************************************************)
(* Further properties of the cache-invalidation endpoint.                  *)
(***************************************************************************)
\* C24: when no secret is configured every POST is answered 401.
C24_NoSecretRejectsAll ==
    (handler = "POST" /\ ~env.STRAPI_REVALIDATE_TOKEN.has) =>
        /\ output.outcome = "response"
        /\ output.response.status = 401
        /\ tags = <<>>

\* The request passes the endpoint's token check.
TokenCheckPassed ==
    /\ input.authorization.has
    /\ input.authorization.val
         = "Bearer " \o (IF env.STRAPI_REVALIDATE_TOKEN.has
                         THEN env.STRAPI_REVALIDATE_TOKEN.val ELSE "undefined")

\* C25: the token check comes first: a request that fails it is answered 401
\* without its body being read and without any tag being invalidated, and
\* tags are invalidated only in runs whose token check passed.
C25_TokenCheckFirst ==
    handler = "POST" =>
        /\ ~TokenCheckPassed =>
            /\ output.outcome = "response"
            /\ output.response.status = 401
            /\ ~output.bodyRead
            /\ tags = <<>>
        /\ output.bodyRead => TokenCheckPassed
        /\ tags # <<>> => (TokenCheckPassed /\ output.bodyRead)

C25_Witness ==
    /\ handler = "POST"
    /\ input.authorization = Some("Bearer wrong")
    /\ input.body.kind = "unparseable"
    /\ output.response.status = 401
    /\ ~output.bodyRead

\* The requests the Content Client issues for the pages of the site.
ClientRequests ==
    {GetBlogPostsRequest(Num(1), Num(PageSize)), GetCategoriesRequest}
    \cup {GetPostBySlugRequest(slug) : slug \in PostSlugs \cup {"road"}}
    \cup {GetPostsByCategoryRequest(slug, Num(1), Num(PageSize)) :
            slug \in CategorySlugs \cup {"abc"}}

\* C26: every cache tag the endpoint invalidates is attached to at least one
\* request of the Content Client.
C26_InvalidatedTagsAreUsed ==
    handler = "POST" =>
        \A i \in 1..Len(tags) :
            \E request \in ClientRequests : tags[i] \in FetchTags(request)

(***************************************************************************)
(* Further properties of the pagination.                                   *)
(***************************************************************************)
\* C27: every pagination link the listing pages render targets a page in
\* 1..pageCount.
C27_LinksWithinRange ==
    (handler \in ListingPages /\ output.outcome = "rendered") =>
        /\ output.previous.shown => output.previous.target \in 1..output.pageCount
        /\ output.next.shown => output.next.target \in 1..output.pageCount

\* The CMS holds a post of the requested category.
CategoryHasPosts ==
    \E i \in 1..Len(cms.posts) : \E j \in 1..Len(cms.posts[i].categories) :
        cms.posts[i].categories[j].slug = input.slug

\* C28: the category listing page signals not-found only for a category
\* without posts: for a category with a post every requested page renders.
C28_NotFoundOnlyForEmptyCategory ==
    (handler = "CategoryPage" /\ Answer.ok /\ CategoryHasPosts) =>
        output.outcome = "rendered"

\* C28 as amended: the category listing page signals not-found exactly when
\* the CMS returned an empty page of posts, also for a category that has
\* posts (a page number beyond its pageCount); whenever the returned page
\* holds a post, the page is rendered with exactly those posts.
C28_NotFoundIffEmptyPage ==
    (handler = "CategoryPage" /\ Answer.ok) =>
        /\ output.outcome = "notFound" <=> Len(Answer.json.data) = 0
        /\ output.outcome = "rendered" <=> Len(Answer.json.data) >= 1
        /\ output.outcome = "rendered" => output.posts = Answer.json.data

C28_Witness ==
    /\ handler = "CategoryPage"
    /\ input.slug = "road"
    /\ input.page = Some("4")
    /\ CategoryHasPosts
    /\ Answer.ok
    /\ Answer.json.meta.pagination.pageCount = 3
    /\ output.outcome = "notFound"

(***************************************************************************)
(* Properties of the header.                                               *)
(***************************************************************************)
\* The description denotes an integer, as parseInt reads it.
Parses(category) == ~ParseInt(category.description).nan

SameElements(a, b) ==
    /\ Len(a) = Len(b)
    /\ {a[i] : i \in 1..Len(a)} = {b[i] : i \in 1..Len(b)}

\* C23: the categories HeaderData passes to Header are a permutation of the
\* categories getCategories returned, in ascending order of the integers
\* parsed from their descriptions, whatever the descriptions are.
C23_HeaderCategoriesSorted ==
    (HeaderShown /\ output.event = "mount") =>
        /\ SameElements(output.categories, Answer.json.data)
        /\ \A i, j \in 1..Len(output.categories) :
            (i < j /\ Parses(output.categories[i]) /\ Parses(output.categories[j])) =>
                ParseInt(output.categories[i].description).val
                    <= ParseInt(output.categories[j].description).val

\* What of C23 holds: a permutation always, ascending when every
\* description parses.
C23_SortedWhenAllParse ==
    (HeaderShown /\ output.event = "mount") =>
        /\ SameElements(output.categories, Answer.json.data)
        /\ (\A i \in 1..Len(output.categories) : Parses(output.categories[i])) =>
            \A i, j \in 1..Len(output.categories) :
                i < j => ParseInt(output.categories[i].description).val
                            <= ParseInt(output.categories[j].description).val

\* C29: the mobile menu is closed when the header is mounted, each press of
\* the menu button flips it, after a click on a link of the dropdown it is
\* closed, and none of these changes the categories shown.
C29_MenuStateMachine ==
    /\ []((HeaderShown /\ output.event = "mount") => ~output.isMenuOpen)
    /\ [][(HeaderShown /\ handler' = "HeaderData") =>
            /\ output'.outcome = "rendered"
            /\ output'.event \in {"button", "link"}
            /\ output'.clicks = output.clicks + 1
            /\ output'.event = "button" => output'.isMenuOpen = ~output.isMenuOpen
            /\ output'.event = "link" => (output.isMenuOpen /\ ~output'.isMenuOpen)
            /\ output'.categories = output.categories
            /\ output'.navigation = output.navigation]_vars

C29_Witness ==
    /\ HeaderShown
    /\ output.event = "link"
    /\ output.clicks = 2
    /\ ~output.isMenuOpen
    /\ Len(output.categories) = 3
    /\ output.dropdown = <<>>
====
